---- MODULE Spec2Model ----
(***************************************************************************)
(* The genetic algorithm of atoml/ga/algorithm.py (class GeneticAlgorithm).*)
(*                                                                         *)
(* A candidate is a Python object; the model keeps its identity and, of    *)
(* its content, what the user-supplied fit_func does with it (out).  The   *)
(* identity is where the object is at the start of the current step:       *)
(* [gen |-> 0, slot |-> i] is the i-th member of population at that time   *)
(* and [gen |-> 1, slot |-> c] the offspring of slot c of this step.  No   *)
(* object lives in two places, so these names are as different as the      *)
(* objects are, through the step and its reduction.                        *)
(* A fitness is a float; the model keeps it as an integer number of        *)
(* millionths (1.000004 is 1000004), and float('-inf') as NegInf.          *)
(* population is a Python list, so that `p2 is p1` compares the identities *)
(* of two members.                                                         *)
(***************************************************************************)
EXTENDS Integers, Sequences, FiniteSets, TLC

VARIABLES population_size, steps, repeat, population, fitness,
          converge_check, step, offspring_list, p1, operator, p2, new_fit, pc

vars == <<population_size, steps, repeat, population, fitness,
          converge_check, step, offspring_list, p1, operator, p2, new_fit, pc>>

\* Bounds of the model.
MaxPopSize == 2
MaxSteps == 3
MaxRepeat == 2

\* float('-inf'), below every fitness of FitValues.
NegInf == -1000000000

\* The values fit_func returns, in millionths: 1.000004, 1.000006, 1.000011.
FitValues == {1000004, 1000006, 1000011}

\* What one call of fit_func does: return a value, raise ValueError, or
\* raise an exception of another class.
Outcomes == [kind : {"value"}, v : FitValues]
              \cup {[kind |-> "ValueError", v |-> 0], [kind |-> "Error", v |-> 0]}

\* The operators of the default list.
cut_and_splice == "cut_and_splice"
random_permutation == "random_permutation"
operators == <<cut_and_splice, random_permutation>>

\* Python's None, as a candidate and as a fitness array.
None == [gen |-> -1, slot |-> 0, out |-> [kind |-> "None", v |-> 0]]
NoFit == [kind |-> "unset", fit |-> <<>>]

Range(s) == {s[i] : i \in DOMAIN s}

\* Python's `a is b` on candidates and None.
Is(a, b) == a.gen = b.gen /\ a.slot = b.slot

RECURSIVE MaxOf(_)
MaxOf(s) == IF Len(s) = 1 THEN s[1]
            ELSE LET m == MaxOf(Tail(s)) IN IF s[1] >= m THEN s[1] ELSE m

\* Round5 with a tolerance of 4 decimal places instead of 5.
Round5Coarse(x) ==
    IF x = NegInf THEN NegInf
    ELSE LET q == x \div 100
             r == x % 100
         IN  IF r < 50 THEN q * 100 ELSE (q + 1) * 100

(***************************************************************************)
(* round(x, 5) of a fitness in millionths: to the nearest multiple of 10,  *)
(* a tie to the even one; round(-inf, 5) is -inf.                          *)
(***************************************************************************)
Round5(x) ==
    IF x = NegInf THEN NegInf
    ELSE LET q == x \div 10
             r == x % 10
         IN  IF r < 5 THEN q * 10
             ELSE IF r > 5 THEN (q + 1) * 10
             ELSE IF q % 2 = 0 THEN q * 10 ELSE (q + 1) * 10

\* self.fit_func(parameter): what the call does.
fit_func(parameter) == parameter.out

(***************************************************************************)
(* _get_fitness: fit starts as zeros; the loop stores fit_func's value, or *)
(* -inf when it raises ValueError.  An exception of another class leaves   *)
(* the function at the first candidate that raises it.  No path returns    *)
(* None.                                                                   *)
(***************************************************************************)
\* FitLoop that leaves the zero of np.zeros where fit_func raises ValueError.
RECURSIVE FitLoopZero(_, _, _)
FitLoopZero(param_list, index, fit) ==
    IF index > Len(param_list) THEN [kind |-> "array", fit |-> fit]
    ELSE LET r == param_list[index].out IN
         IF r.kind = "Error" THEN [kind |-> "raise", fit |-> <<>>]
         ELSE LET calc_fit == IF r.kind = "ValueError" THEN 0 ELSE r.v
              IN  FitLoopZero(param_list, index + 1, [fit EXCEPT ![index] = calc_fit])

RECURSIVE FitLoop(_, _, _)
FitLoop(param_list, index, fit) ==
    IF index > Len(param_list) THEN [kind |-> "array", fit |-> fit]
    ELSE LET r == fit_func(param_list[index]) IN
         IF r.kind = "Error" THEN [kind |-> "raise", fit |-> <<>>]
         ELSE LET calc_fit == IF r.kind = "ValueError" THEN NegInf ELSE r.v
              IN  FitLoop(param_list, index + 1, [fit EXCEPT ![index] = calc_fit])

_get_fitness(param_list) ==
    FitLoop(param_list, 1, [i \in 1..Len(param_list) |-> 0])

(***************************************************************************)
(* _selection.  Sorted is sorted(zip(a, b), reverse=...) in the order of   *)
(* Python tuples, for pairs that are all different (one of a and b holds   *)
(* indices): the pair at position k is the one with k - 1 pairs before it. *)
(* fit1 is fit[1], the indices in descending order of (fitness, index);    *)
(* scale[k] is k/(length + 2) (a true division), kept as its numerator k; *)
(* ScaleOf is the tuple the code rebinds fit_list to at line 158.          *)
(***************************************************************************)
PairLess(x, y) == x[1] < y[1] \/ (x[1] = y[1] /\ x[2] < y[2])

Zip(a, b) == [i \in DOMAIN a |-> <<a[i], b[i]>>]

Sorted(pairs, reverse) ==
    [k \in DOMAIN pairs |->
        CHOOSE x \in Range(pairs) :
            Cardinality({y \in Range(pairs) :
                IF reverse THEN PairLess(x, y) ELSE PairLess(y, x)}) = k - 1]

\* list(zip(*pairs))[c - 1], for n pairs.
RECURSIVE Column(_, _, _)
Column(pairs, c, n) ==
    IF n = 0 THEN <<>> ELSE Append(Column(pairs, c, n - 1), pairs[n][c])

\* list(range(length)), counted from 1.
RECURSIVE IndexList(_)
IndexList(length) == IF length = 0 THEN <<>> ELSE Append(IndexList(length - 1), length)

fit1(fit_list) ==
    Column(Sorted(Zip(fit_list, IndexList(Len(fit_list))), TRUE), 2, Len(fit_list))

RECURSIVE scale(_)
scale(length) == IF length = 0 THEN <<>> ELSE Append(scale(length - 1), length)

ScaleOf(fit_list) ==
    Column(Sorted(Zip(fit1(fit_list), scale(Len(fit_list))), FALSE), 2, Len(fit_list))

Shuffles(length) ==
    {s \in [1..length -> 1..length] : \A i, j \in 1..length : s[i] = s[j] => i = j}

\* np.random.rand(1)[0]: `fitness > draw` for a fitness k/(length + 2) only
\* depends on the interval [d/(length + 2), (d + 1)/(length + 2)) of the draw.
Draws(length) == 0..(length + 1)

\* Scan with the test `fitness > draw` turned around to `fitness < -draw`,
\* which no draw passes.
RECURSIVE ScanNever(_, _, _, _)
ScanNever(param_list_shuf, fit_list_shuf, draws, k) ==
    IF k > Len(fit_list_shuf) THEN {None}
    ELSE (IF \E d \in draws : fit_list_shuf[k] < -d
          THEN {param_list_shuf[k]} ELSE {})
         \cup ScanNever(param_list_shuf, fit_list_shuf, draws, k + 1)

\* Lines 167-171 from position k of the shuffled lists on: the parameters
\* the loop can return, over the draws; None when no draw is below.
RECURSIVE Scan(_, _, _, _)
Scan(param_list_shuf, fit_list_shuf, draws, k) ==
    IF k > Len(fit_list_shuf) THEN {None}
    ELSE (IF \E d \in draws : fit_list_shuf[k] > d
          THEN {param_list_shuf[k]} ELSE {})
         \cup
         (IF \E d \in draws : ~(fit_list_shuf[k] > d)
          THEN Scan(param_list_shuf, fit_list_shuf, draws, k + 1) ELSE {})

\* Lines 161-164.
RECURSIVE Reorder(_, _)
Reorder(list, index_shuf) ==
    IF index_shuf = <<>> THEN <<>>
    ELSE <<list[index_shuf[1]]>> \o Reorder(list, Tail(index_shuf))

\* What _selection(param_list, fit_list) can return, over the orders
\* random.shuffle gives and the numbers np.random.rand gives.
_selection(param_list, fit_list) ==
    UNION {Scan(Reorder(param_list, index_shuf), Reorder(sc, index_shuf),
                Draws(Len(fit_list)), 1) :
              index_shuf \in Shuffles(Len(fit_list)), sc \in {ScaleOf(fit_list)}}

(***************************************************************************)
(* _population_reduction: a stable sort in descending order of fitness,    *)
(* then a walk that keeps a pair when fewer than population_size are kept  *)
(* and its rounded fitness is not in unique_list.                          *)
(***************************************************************************)
\* InsertDesc for a sort without reverse=True.
RECURSIVE InsertAsc(_, _)
InsertAsc(sorted, x) ==
    IF sorted = <<>> THEN <<x>>
    ELSE IF sorted[1][2] <= x[2] THEN <<sorted[1]>> \o InsertAsc(Tail(sorted), x)
    ELSE <<x>> \o sorted

RECURSIVE InsertDesc(_, _)
InsertDesc(sorted, x) ==
    IF sorted = <<>> THEN <<x>>
    ELSE IF sorted[1][2] >= x[2] THEN <<sorted[1]>> \o InsertDesc(Tail(sorted), x)
    ELSE <<x>> \o sorted

\* SortDesc that leaves the list as it is.
SortNot(details) == details

RECURSIVE SortDesc(_)
SortDesc(details) ==
    IF details = <<>> THEN <<>>
    ELSE InsertDesc(SortDesc(SubSeq(details, 1, Len(details) - 1)),
                    details[Len(details)])

\* The fill loop with the fitness itself in unique_list, not round(i[1], 5).
RECURSIVE FillExact(_, _, _, _, _)
FillExact(global_details, pop, fit, unique_list, size) ==
    IF global_details = <<>> THEN [population |-> pop, fitness |-> fit]
    ELSE LET i == global_details[1] IN
         IF Len(pop) < size
         THEN IF i[2] \notin unique_list
              THEN FillExact(Tail(global_details), Append(pop, i[1]),
                             Append(fit, i[2]), unique_list \cup {i[2]}, size)
              ELSE FillExact(Tail(global_details), pop, fit, unique_list, size)
         ELSE [population |-> pop, fitness |-> fit]

RECURSIVE Fill(_, _, _, _, _)
Fill(global_details, pop, fit, unique_list, size) ==
    IF global_details = <<>> THEN [population |-> pop, fitness |-> fit]
    ELSE LET i == global_details[1] IN
         IF Len(pop) < size
         THEN IF Round5(i[2]) \notin unique_list
              THEN Fill(Tail(global_details), Append(pop, i[1]), Append(fit, i[2]),
                        unique_list \cup {Round5(i[2])}, size)
              ELSE Fill(Tail(global_details), pop, fit, unique_list, size)
         ELSE [population |-> pop, fitness |-> fit]

\* _population_reduction that sorts the fitness values alone and leaves the
\* candidates in their order.
PopulationReductionUnpaired(pop, fit, size) ==
    LET sorted_fit == SortDesc([i \in DOMAIN pop |-> <<pop[i], fit[i]>>])
        global_details == [i \in DOMAIN pop |-> <<pop[i], sorted_fit[i][2]>>]
    IN  Fill(global_details, <<>>, <<>>, {}, size)

_population_reduction(pop, fit, size) ==
    LET global_details == SortDesc([i \in DOMAIN pop |-> <<pop[i], fit[i]>>])
    IN  Fill(global_details, <<>>, <<>>, {}, size)

(***************************************************************************)
(* Convergence and its no_progress: the best fitness seen, the number of   *)
(* calls in a row that did not improve it, and the number of calls.        *)
(***************************************************************************)
Convergence == [calls |-> 0, best |-> NegInf, stall |-> 0]

no_progress(cc, fit, rep) ==
    LET m == MaxOf(fit)
        improved == cc.calls = 0 \/ m > cc.best
        stall == IF improved THEN 0 ELSE cc.stall + 1
    IN  [state |-> [calls |-> cc.calls + 1,
                    best |-> IF improved THEN m ELSE cc.best,
                    stall |-> stall],
         result |-> stall >= rep]

(***************************************************************************)
(* The state after GeneticAlgorithm(...): a population of population_size  *)
(* candidates, no fitness attribute yet; steps and repeat are the          *)
(* arguments the coming search call gets.                                  *)
(***************************************************************************)
Init ==
    /\ population_size \in 1..MaxPopSize
    /\ steps \in 0..MaxSteps
    /\ repeat \in 1..MaxRepeat
    /\ \E outs \in [1..population_size -> Outcomes] :
         population = [i \in 1..population_size |->
                         [gen |-> 0, slot |-> i, out |-> outs[i]]]
    /\ fitness = <<>>
    /\ converge_check = Convergence
    /\ step = 0
    /\ offspring_list = <<>>
    /\ p1 = None
    /\ operator = ""
    /\ p2 = None
    /\ new_fit = NoFit
    /\ pc = "search"

params == <<population_size, steps, repeat>>

\* search, lines 68-74: the initial fitness and the first no_progress call,
\* whose result is not used.
SearchStart ==
    /\ pc = "search"
    /\ LET r == _get_fitness(population) IN
         IF r.kind = "raise"
         THEN /\ pc' = "raised"
              /\ UNCHANGED <<fitness, converge_check>>
         ELSE /\ fitness' = r.fit
              /\ converge_check' = no_progress(Convergence, r.fit, repeat).state
              /\ pc' = "for"
    /\ UNCHANGED <<params, population, step, offspring_list, p1, operator, p2, new_fit>>

\* ForStep with range(steps - 1).
ForStepShort ==
    /\ pc = "for"
    /\ IF step < steps - 1
       THEN /\ step' = step + 1
            /\ population' = [i \in DOMAIN population |->
                                [population[i] EXCEPT !.gen = 0, !.slot = i]]
            /\ offspring_list' = <<>>
            /\ new_fit' = NoFit
            /\ p1' = None
            /\ pc' = "p1"
       ELSE /\ pc' = "done"
            /\ UNCHANGED <<step, population, offspring_list, p1, new_fit>>
    /\ UNCHANGED <<params, fitness, converge_check, operator, p2>>

\* for step in range(steps), and the entry of _new_generation with its
\* first slot (population_size is positive).  new_fit of the step before
\* is not read again before line 80 assigns it: the model forgets it here,
\* and names the members of population by their place at this time.
ForStep ==
    /\ pc = "for"
    /\ IF step < steps
       THEN /\ step' = step + 1
            /\ population' = [i \in DOMAIN population |->
                                [population[i] EXCEPT !.gen = 0, !.slot = i]]
            /\ offspring_list' = <<>>
            /\ new_fit' = NoFit
            /\ p1' = None
            /\ pc' = "p1"
       ELSE /\ pc' = "done"
            /\ UNCHANGED <<step, population, offspring_list, p1, new_fit>>
    /\ UNCHANGED <<params, fitness, converge_check, operator, p2>>

\* One pass of `while p1 is None`, lines 110-111.
SelectP1 ==
    /\ pc = "p1"
    /\ \E parameter \in _selection(population, fitness) :
         /\ p1' = parameter
         /\ pc' = IF Is(p1', None) THEN "p1" ELSE "operator"
    /\ UNCHANGED <<params, population, fitness, converge_check, step,
                   offspring_list, operator, p2, new_fit>>

\* random.choice(self.operators) and the test of line 117; p2 = p1.
ChooseOperator ==
    /\ pc = "operator"
    /\ \E o \in Range(operators) :
         /\ operator' = o
         /\ IF o = cut_and_splice
            THEN p2' = p1 /\ pc' = "p2"
            ELSE p2' = None /\ pc' = "append"
    /\ UNCHANGED <<params, population, fitness, converge_check, step,
                   offspring_list, p1, new_fit>>

\* SelectP2 with the loop test `while p2 is None`.
SelectP2AnyParent ==
    /\ pc = "p2"
    /\ \E parameter \in _selection(population, fitness) :
         /\ p2' = parameter
         /\ pc' = IF Is(p2', None) THEN "p2" ELSE "append"
    /\ UNCHANGED <<params, population, fitness, converge_check, step,
                   offspring_list, p1, operator, new_fit>>

\* One pass of `while p2 is p1 or p2 is None`, lines 119-120.
SelectP2 ==
    /\ pc = "p2"
    /\ \E parameter \in _selection(population, fitness) :
         /\ p2' = parameter
         /\ pc' = IF Is(p2', p1) \/ Is(p2', None) THEN "p2" ELSE "append"
    /\ UNCHANGED <<params, population, fitness, converge_check, step,
                   offspring_list, p1, operator, new_fit>>

\* AppendOffspring with the loop `for c in range(len(self.population))`.
AppendOffspringByLen ==
    /\ pc = "append"
    /\ \E out \in Outcomes :
         offspring_list' = Append(offspring_list,
             [gen |-> 1, slot |-> Len(offspring_list) + 1, out |-> out])
    /\ pc' = IF Len(offspring_list') < Len(population) THEN "p1" ELSE "evaluate"
    /\ p1' = None
    /\ operator' = ""
    /\ p2' = None
    /\ UNCHANGED <<params, population, fitness, converge_check, step, new_fit>>

\* offspring_list.append(operator(p1, p2)) or append(operator(p1)): the
\* operator returns a new object, of any content.  Then the next slot
\* (p1 = None), or the return, which ends the scope of p1, operator, p2;
\* the next slot assigns operator and p2 before it reads them, and the
\* model forgets them here.
AppendOffspring ==
    /\ pc = "append"
    /\ \E out \in Outcomes :
         offspring_list' = Append(offspring_list,
             [gen |-> 1, slot |-> Len(offspring_list) + 1, out |-> out])
    /\ pc' = IF Len(offspring_list') < population_size THEN "p1" ELSE "evaluate"
    /\ p1' = None
    /\ operator' = ""
    /\ p2' = None
    /\ UNCHANGED <<params, population, fitness, converge_check, step, new_fit>>

\* Lines 80-82.
Evaluate ==
    /\ pc = "evaluate"
    /\ new_fit' = _get_fitness(offspring_list)
    /\ pc' = IF new_fit'.kind = "raise" THEN "raised"
             ELSE IF new_fit'.kind = "None" THEN "done"
             ELSE "reduce"
    /\ UNCHANGED <<params, population, fitness, converge_check, step,
                   offspring_list, p1, operator, p2>>

\* Reduce without the break of line 96.
ReduceNoBreak ==
    /\ pc = "reduce"
    /\ LET extend_fit == fitness \o new_fit.fit
           extend_pop == population \o offspring_list
           r == _population_reduction(extend_pop, extend_fit, population_size)
           np == no_progress(converge_check, r.fitness, repeat)
       IN  /\ population' = r.population
           /\ fitness' = r.fitness
           /\ converge_check' = np.state
           /\ pc' = "for"
    /\ UNCHANGED <<params, step, offspring_list, p1, operator, p2, new_fit>>

\* Lines 85-96: concatenate, reduce, ask the convergence monitor.
Reduce ==
    /\ pc = "reduce"
    /\ LET extend_fit == fitness \o new_fit.fit
           extend_pop == population \o offspring_list
           r == _population_reduction(extend_pop, extend_fit, population_size)
           np == no_progress(converge_check, r.fitness, repeat)
       IN  /\ population' = r.population
           /\ fitness' = r.fitness
           /\ converge_check' = np.state
           /\ pc' = IF np.result THEN "done" ELSE "for"
    /\ UNCHANGED <<params, step, offspring_list, p1, operator, p2, new_fit>>

Next ==
    \/ SearchStart
    \/ ForStep
    \/ SelectP1
    \/ ChooseOperator
    \/ SelectP2
    \/ AppendOffspring
    \/ Evaluate
    \/ Reduce

Spec == Init /\ [][Next]_vars

\* Fair random draws: a pass of the first-parent loop that can return a
\* candidate is not passed over for ever.
FairSpec == Spec /\ WF_vars(SelectP1 /\ ~Is(p1', None))

\* Fair random draws in both re-draw loops: a pass of the second-parent
\* loop that can return a candidate other than p1 is not passed over for
\* ever either.
FairDraws == FairSpec /\ WF_vars(SelectP2 /\ pc' = "append")

(***************************************************************************)
(* The claims.                                                             *)
(***************************************************************************)
\* The number of reduction steps done: no_progress is called once at line
\* 74 and once after each reduction.
Reductions == converge_check.calls - 1

\* The pool a reduction step is about to reduce.
PoolFit == fitness \o new_fit.fit
PoolPop == population \o offspring_list

\* The fitness _get_fitness is to give a candidate whose evaluation does
\* not leave the function.
Value(c) == IF c.out.kind = "ValueError" THEN NegInf ELSE c.out.v

Descending(fit) == \A i, j \in DOMAIN fit : i < j => fit[i] >= fit[j]

Running == pc \in {"p1", "operator", "p2", "append", "evaluate", "reduce"}

C2_ScaleFollowsRank ==
    pc \in {"p1", "p2"} =>
        LET sc == ScaleOf(fitness)
            N == Len(fitness)
        IN  /\ Range(sc) = 1..N
            /\ \A i, j \in 1..N : fitness[i] > fitness[j] => sc[i] > sc[j]

\* C3: a reduction step never lowers the best value of fitness.
C3_BestNeverWorse ==
    [][pc = "reduce" => MaxOf(fitness') >= MaxOf(fitness)]_vars

\* A reduction step has put a better best value at the top of fitness.
C3_Witness ==
    /\ Reductions >= 1
    /\ converge_check.stall = 0
    /\ \E c \in Range(offspring_list) : Is(c, population[1])

\* C4, as claimed: whatever error fit_func signals, _get_fitness does not
\* abort, and returns -inf at exactly the failing indices and fit_func's
\* value at the others.
C4_NeverAborts ==
    /\ pc # "raised"
    /\ new_fit.kind = "array" =>
          /\ Len(new_fit.fit) = Len(offspring_list)
          /\ \A i \in DOMAIN offspring_list :
                new_fit.fit[i] = IF offspring_list[i].out.kind = "value"
                                 THEN offspring_list[i].out.v ELSE NegInf

\* C4, amended: when fit_func raises ValueError on some candidates of a
\* batch and no other exception, _get_fitness returns a vector of the
\* length of the batch with -inf at exactly those indices and fit_func's
\* value at the others (for the offspring and for the initial population);
\* it only aborts when fit_func raises an exception of another class.
C4_ValueErrorGivesNegInf ==
    /\ new_fit.kind = "array" =>
          /\ Len(new_fit.fit) = Len(offspring_list)
          /\ \A i \in DOMAIN offspring_list :
                new_fit.fit[i] = IF offspring_list[i].out.kind = "ValueError"
                                 THEN NegInf ELSE offspring_list[i].out.v
    /\ (pc = "for" /\ Reductions = 0) =>
          /\ Len(fitness) = Len(population)
          /\ \A i \in DOMAIN population :
                fitness[i] = IF population[i].out.kind = "ValueError"
                             THEN NegInf ELSE population[i].out.v
    /\ pc = "raised" =>
          \E c \in Range(IF fitness = <<>> THEN population ELSE offspring_list) :
              c.out.kind = "Error"
    /\ (pc = "evaluate" \/ pc = "search") => new_fit.kind # "array"

\* A batch with a failing and a non-failing candidate has been evaluated.
C4_Witness ==
    /\ new_fit.kind = "array"
    /\ \E i, j \in DOMAIN offspring_list :
          /\ offspring_list[i].out.kind = "ValueError"
          /\ offspring_list[j].out.kind = "value"
          /\ new_fit.fit[i] = NegInf

\* C5: cut_and_splice is never called with the same member of the
\* population as both parents.
C5_DistinctParents ==
    (pc = "append" /\ operator = cut_and_splice) =>
        /\ ~Is(p1, p2)
        /\ \E i, j \in DOMAIN population :
              i # j /\ Is(population[i], p1) /\ Is(population[j], p2)

\* cut_and_splice is about to be called with two parents of equal content.
C5_Witness ==
    /\ pc = "append"
    /\ operator = cut_and_splice
    /\ p1.out = p2.out

\* C6, as claimed: search does at most `steps` steps and when it has
\* returned exactly one of these holds: `steps` steps were completed,
\* no_progress returned true after the latest reduction, the offspring
\* evaluation returned None.
StepsCompleted == Reductions = steps
Converged == Reductions >= 1 /\ converge_check.stall >= repeat
GotNone == new_fit.kind = "None"

C6_ExactlyOneReason ==
    /\ step <= steps
    /\ pc = "done" =>
          \/ StepsCompleted /\ ~Converged /\ ~GotNone
          \/ ~StepsCompleted /\ Converged /\ ~GotNone
          \/ ~StepsCompleted /\ ~Converged /\ GotNone

\* C6, amended: search does at most `steps` steps, and when it has returned
\* `steps` steps were completed or no_progress returned true after the
\* latest reduction (both, when it does so in the last step); the
\* offspring evaluation never returns None.
C6_SomeReason ==
    /\ step <= steps
    /\ Reductions <= steps
    /\ ~GotNone
    /\ pc = "done" => StepsCompleted \/ Converged

\* search has returned from its last step because no_progress returned true.
C6_Witness ==
    /\ pc = "done"
    /\ steps >= 1
    /\ StepsCompleted
    /\ Converged

\* C7: the monitor of a search call starts fresh, is called once on the
\* initial fitness and once after each reduction, on the best fitness of
\* the population; the call that is the repeat-th in a row without a
\* strictly better best fitness returns true and no earlier one does, and
\* search then stops without another step.
C7_ConvergenceStops ==
    /\ pc = "search" => converge_check = Convergence
    /\ pc = "for" => converge_check.calls = step + 1
    /\ Running => converge_check.calls = step
    /\ pc = "done" => converge_check.calls = step + 1
    /\ converge_check.calls >= 1 => converge_check.best = MaxOf(fitness)
    /\ (pc = "for" \/ Running) => converge_check.stall < repeat
    /\ converge_check.stall <= repeat
    /\ converge_check.stall = repeat => pc = "done"
    /\ (pc = "done" /\ step < steps) => converge_check.stall = repeat

\* search has stopped before its last step, on the second call in a row
\* without a better best fitness.
C7_Witness ==
    /\ pc = "done"
    /\ step < steps
    /\ repeat = 2
    /\ converge_check.stall = 2

\* C8, as claimed: when search has returned, for every `steps`, fitness is
\* in descending order, fitness[0] is its maximum and belongs to
\* population[0].
C8_SortedAtEnd ==
    pc = "done" =>
        /\ Descending(fitness)
        /\ fitness[1] = MaxOf(fitness)
        /\ Value(population[1]) = fitness[1]

\* C8, amended: when search ends after at least one reduction step,
\* fitness is in descending order, fitness[0] is its maximum and belongs
\* to population[0].
C8_SortedAfterReduction ==
    (pc \in {"done", "raised"} /\ Reductions >= 1) =>
        /\ Descending(fitness)
        /\ fitness[1] = MaxOf(fitness)
        /\ Value(population[1]) = fitness[1]

\* search has returned with a population of two or more, the best an
\* offspring.
C8_Witness ==
    /\ pc = "done"
    /\ Reductions >= 1
    /\ Len(fitness) >= 2
    /\ population[1].gen >= 1
    /\ fitness[1] > fitness[2]

\* C9: every value _selection returns is None or a member of the
\* population, and under fair draws every run of the first-parent loop
\* ends with a member of the population.
C9_FirstParentFound ==
    /\ [](\A c \in {p1, p2} : Is(c, None) \/ \E i \in DOMAIN population : population[i] = c)
    /\ (pc = "p1") ~> (pc = "operator" /\ ~Is(p1, None))

\* The first-parent loop has ended with the member of lowest fitness.
C9_Witness ==
    /\ pc = "operator"
    /\ Len(population) >= 2
    /\ \E i \in DOMAIN population :
          population[i] = p1 /\ fitness[i] < MaxOf(fitness)

\* C10, as claimed: of two candidates with fitness 1.000004 and 1.000006 in
\* the pool, with population_size at least 2, the reduction retains only
\* one.
C10_OnlyOneRetained ==
    [][(/\ pc = "reduce"
        /\ population_size >= 2
        /\ {1000004, 1000006} \subseteq Range(PoolFit))
       => ~({1000004, 1000006} \subseteq Range(fitness'))]_vars

\* C10, amended: 1.000004 and 1.000006 round to 1.00000 and 1.00001, so
\* with population_size at least 2 and no other fitness of the pool above
\* 1.000004, the reduction retains both, one candidate of each: 1.000006
\* first, then 1.000004, each the first of its fitness in the pool.
C10_BothRetained ==
    [][(/\ pc = "reduce"
        /\ population_size >= 2
        /\ {1000004, 1000006} \subseteq Range(PoolFit)
        /\ \A i \in DOMAIN PoolFit : PoolFit[i] \in {1000004, 1000006} \/ PoolFit[i] < 1000004)
       => /\ SubSeq(fitness', 1, 2) = <<1000006, 1000004>>
          /\ \A k \in 1..2 :
                LET first == CHOOSE i \in DOMAIN PoolFit :
                                /\ PoolFit[i] = fitness'[k]
                                /\ \A j \in 1..(i - 1) : PoolFit[j] # fitness'[k]
                IN  Is(population'[k], PoolPop[first])
          /\ \A k \in DOMAIN fitness' : k > 2 => fitness'[k] < 1000004]_vars

\* A reduction has retained a candidate of fitness 1.000006 and one of
\* 1.000004 out of a pool with two candidates of fitness 1.000004.
C10_Witness ==
    /\ pc \in {"for", "done"}
    /\ Reductions >= 1
    /\ Len(fitness) >= 2
    /\ SubSeq(fitness, 1, 2) = <<1000006, 1000004>>
    /\ \E c \in Range(offspring_list) :
          Value(c) = 1000004 /\ ~Is(c, population[2])

\* C11: once the initial evaluation is done, at every point of search
\* fitness is as long as population and fitness[i] is the value the
\* fitness function gave for population[i] (-inf where it raised
\* ValueError).
C11_FitnessPaired ==
    converge_check.calls >= 1 =>
        /\ Len(fitness) = Len(population)
        /\ \A i \in DOMAIN population : fitness[i] = Value(population[i])

\* A reduction has put an offspring before a member of the population
\* whose evaluation raised ValueError.
C11_Witness ==
    /\ pc = "for"
    /\ Reductions >= 1
    /\ Len(population) >= 2
    /\ population[1].gen = 1
    /\ population[2].gen = 0
    /\ population[2].out.kind = "ValueError"
    /\ fitness[2] = NegInf

\* C12: whenever recombination is chosen for an offspring, the re-draw loop
\* for the second parent ends, under fair random draws, with a parent that
\* is neither None nor the first parent.
C12_SecondParentFound ==
    (pc = "p2") ~> (pc = "append" /\ ~Is(p2, None) /\ ~Is(p2, p1))

\* C13: if the fitness function fails for every offspring of the batch of a
\* step, the evaluation of that batch ends search (by the break or by the
\* exception) with population and fitness as they were before the step.
C13_BatchFailureStops ==
    [][(/\ pc = "evaluate"
        /\ \A i \in DOMAIN offspring_list :
               offspring_list[i].out.kind # "value")
       => /\ pc' \in {"done", "raised"}
          /\ UNCHANGED <<population, fitness>>]_vars

\* The rounded fitness values of the pool, and the place in the pool of the
\* pair that comes first among those of rounded fitness r when the pool is
\* sorted by descending fitness (pairs of equal fitness keep their order).
PoolRounded == {Round5(PoolFit[i]) : i \in DOMAIN PoolFit}

FirstOfRounded(r) ==
    CHOOSE i \in DOMAIN PoolFit :
        /\ Round5(PoolFit[i]) = r
        /\ \A j \in DOMAIN PoolFit :
               (j # i /\ Round5(PoolFit[j]) = r) =>
                   \/ PoolFit[j] < PoolFit[i]
                   \/ PoolFit[j] = PoolFit[i] /\ j > i

\* C14: a reduction keeps exactly min(population_size, number of distinct
\* rounded fitness values of the pool) pairs, in descending fitness order,
\* no two of them with the same rounded fitness, and the pair kept for a
\* rounded value is the first pair of that value in the sorted pool.
C14_ReductionKeepsFirstOfEach ==
    [][pc = "reduce" =>
        LET distinct == Cardinality(PoolRounded)
            kept == IF population_size < distinct THEN population_size
                    ELSE distinct
        IN  /\ Len(population') = kept
            /\ Len(fitness') = kept
            /\ Descending(fitness')
            /\ \A k, l \in DOMAIN fitness' :
                   k # l => Round5(fitness'[k]) # Round5(fitness'[l])
            /\ \A k \in DOMAIN fitness' :
                   /\ Round5(fitness'[k]) \in PoolRounded
                   /\ LET first == FirstOfRounded(Round5(fitness'[k]))
                      IN  /\ Is(population'[k], PoolPop[first])
                          /\ fitness'[k] = PoolFit[first]]_vars

\* A reduction has kept 1.000011 and 1.000004 and dropped an offspring of
\* fitness 1.000006, which rounds to the same value as 1.000011.
C14_Witness ==
    /\ pc \in {"for", "done"}
    /\ Reductions >= 1
    /\ fitness = <<1000011, 1000004>>
    /\ \E i \in DOMAIN offspring_list : Value(offspring_list[i]) = 1000006

\* c is a member of the population.
Selected(c) == \E i \in DOMAIN population : Is(c, population[i])

\* C15: a _new_generation call leaves population and fitness as they are and
\* returns exactly population_size offspring, whatever the length of
\* population; each offspring is appended by one call of the operator
\* chosen for its slot, cut_and_splice on two selected parents that are not
\* the same object, any other operator on one selected parent.
C15_OnePerSlot ==
    [][/\ pc \in {"p1", "operator", "p2", "append"} =>
              UNCHANGED <<population, fitness>>
       /\ pc \in {"p1", "operator", "p2"} => UNCHANGED offspring_list
       /\ pc = "append" =>
              /\ operator \in Range(operators)
              /\ Selected(p1)
              /\ IF operator = cut_and_splice
                 THEN Selected(p2) /\ ~Is(p2, p1)
                 ELSE Is(p2, None)
              /\ Len(offspring_list') = Len(offspring_list) + 1
              /\ SubSeq(offspring_list', 1, Len(offspring_list)) = offspring_list
              /\ Len(offspring_list') <= population_size
              /\ pc' = "evaluate" <=> Len(offspring_list') = population_size
       /\ pc' = "evaluate" => Len(offspring_list') = population_size]_vars

\* _new_generation has returned population_size offspring from a population
\* that a reduction left shorter than population_size.
C15_Witness ==
    /\ pc = "evaluate"
    /\ Reductions >= 1
    /\ Len(population) < population_size
    /\ Len(offspring_list) = population_size

====
